---- MODULE Spec2Model ----
(***************************************************************************)
(* A model of the DTED byte-level decoders of src/src/parsers.rs.          *)
(*                                                                         *)
(* Every decoder is a pure function from a byte slice to an IResult.  The  *)
(* state machine holds one call: the build profile, the input slice, the   *)
(* call's arguments, the position of the call (pc) and the value returned. *)
(* One specification per decoder draws the inputs in Init and applies the  *)
(* decoder in its action.                                                  *)
(*                                                                         *)
(* Bytes are the integers 0..255.  An IResult is a record: Ok(rest, val)   *)
(* is [ok |-> TRUE, rest, val]; Err(kind) is [ok |-> FALSE, err |-> kind]. *)
(* A panic (an arithmetic overflow under overflow checks) is the outcome   *)
(* [ok |-> FALSE, err |-> "Panic"]: the call returns nothing.              *)
(***************************************************************************)
EXTENDS Integers, Sequences, FiniteSets, TLC

VARIABLES build, input, arg, pc, result

vars == <<build, input, arg, pc, result>>

\* The two arithmetic profiles rustc produces: overflow checks on (debug)
\* and off (release, wrapping).
Builds == {"debug", "release"}

----------------------------------------------------------------------------
(* nom's result type and the basic combinators                             *)

Ok(rest, val) == [ok |-> TRUE, rest |-> rest, val |-> val]

Err(kind) == [ok |-> FALSE, err |-> kind]

Panic == [ok |-> FALSE, err |-> "Panic"]

\* A returned decode failure (as opposed to a panic, which returns nothing).
IsFailure(r) == ~r.ok /\ r.err # "Panic"

\* Sequencing of two parsers, as tuple((..)) and the ? operator do: the first
\* error (or panic) ends the decode.
AndThen(r, K(_)) == IF r.ok THEN K(r) ELSE r

None == [some |-> FALSE]

Some(v) == [some |-> TRUE, v |-> v]

Drop(s, n) == SubSeq(s, n + 1, Len(s))

Prefix(s, n) == SubSeq(s, 1, n)

\* nom::bytes::complete::take
take(count, i) ==
    IF Len(i) >= count THEN Ok(Drop(i, count), Prefix(i, count)) ELSE Err("Eof")

\* nom::bytes::complete::tag
tag(t, i) ==
    IF Len(i) >= Len(t) /\ Prefix(i, Len(t)) = t
    THEN Ok(Drop(i, Len(t)), t)
    ELSE Err("Tag")

\* nom::number::complete::be_u16
be_u16(i) ==
    IF Len(i) >= 2 THEN Ok(Drop(i, 2), i[1] * 256 + i[2]) ELSE Err("Eof")

----------------------------------------------------------------------------
(* general constants                                                       *)

U16_SIGN_BIT == 32768

U16_DATA_MSK == 32767

\* x & mask for the two masks the code uses (bit 15, and bits 0..14)
AndSignBit(x) == IF x >= U16_SIGN_BIT THEN U16_SIGN_BIT ELSE 0

AndDataMsk(x) == x % (U16_DATA_MSK + 1)

\* Reinterpret a 16-bit pattern as i16 (two's complement), as `as i16` does.
AsI16(x) == IF (x % 65536) >= 32768 THEN (x % 65536) - 65536 ELSE x % 65536

InI16(n) == n >= -32768 /\ n <= 32767

----------------------------------------------------------------------------
(* to_uint, uint_parser, uint_parser_with_default                          *)

\* A u32 is held as two 16-bit halves, [hi, lo], its value hi * 65536 + lo.
U32(n) == [hi |-> n \div 65536, lo |-> n % 65536]

\* The unsigned target types U a caller may choose, and whether U::from(v)
\* of a u32 v is representable in U (NumCast: None when it is not).
UTypes == {"u8", "u16", "u32"}

FitsIn(v, U) ==
    CASE U = "u8"  -> v.hi = 0 /\ v.lo < 256
      [] U = "u16" -> v.hi = 0
      [] OTHER     -> TRUE

\* (*b - 0x30) in u8: below '0' the subtraction overflows.
ByteMinus0x30(b) ==
    IF b >= 48 THEN [v |-> b - 48, overflow |-> FALSE]
               ELSE [v |-> b - 48 + 256, overflow |-> TRUE]

\* (acc * 10) + d in u32, d < 256: the wrapped value, and whether the
\* multiplication or the addition overflowed.
MulAdd(acc, d) ==
    LET lo10 == acc.lo * 10
        hi10 == acc.hi * 10 + (lo10 \div 65536)
        lo   == (lo10 % 65536) + d
        hi   == (hi10 % 65536) + (lo \div 65536)
    IN  [v |-> [hi |-> hi % 65536, lo |-> lo % 65536],
         overflow |-> hi10 >= 65536 \/ hi >= 65536]

\* A fold step that forgets to scale the accumulator.
FoldStepNoScale(st, b) ==
    LET d == ByteMinus0x30(b)
        lo == st.v.lo + d.v
    IN  [v |-> [hi |-> (st.v.hi + (lo \div 65536)) % 65536, lo |-> lo % 65536],
         overflow |-> st.overflow \/ d.overflow]

\* One step of the fold of to_uint: |acc, b| (acc * 10) + (*b - 0x30) as u32
FoldStep(st, b) ==
    LET d == ByteMinus0x30(b)
        r == MulAdd(st.v, d.v)
    IN  [v |-> r.v, overflow |-> st.overflow \/ d.overflow \/ r.overflow]

RECURSIVE Fold(_, _, _)
Fold(st, bytes, k) ==
    IF k > Len(bytes) THEN st ELSE Fold(FoldStep(st, bytes[k]), bytes, k + 1)

\* U::from of the folded value; the fold panics when an overflow is checked.
Cast(st, U, b) ==
    IF st.overflow /\ b = "debug" THEN [panic |-> TRUE]
    ELSE [panic |-> FALSE, opt |-> IF FitsIn(st.v, U) THEN Some(st.v) ELSE None]

\* to_uint::<U>
to_uint(bytes, U, b) ==
    Cast(Fold([v |-> U32(0), overflow |-> FALSE], bytes, 1), U, b)

\* The closure of map_res: to_uint(bytes).ok_or(..)
OkOr(u, rest) ==
    IF u.panic THEN Panic
    ELSE IF u.opt.some THEN Ok(rest, u.opt.v)
    ELSE Err("MapRes")

\* uint_parser::<U>(count): map_res(take(count), ..)
uint_parser(count, U, i, b) ==
    AndThen(take(count, i), LAMBDA t : OkOr(to_uint(t.val, U, b), t.rest))

\* uint_parser_with_default::<U>(count, default)
uint_parser_with_default(count, default, U, i, b) ==
    IF count = 0 THEN Ok(i, default) ELSE uint_parser(count, U, i, b)

----------------------------------------------------------------------------
(* to_nan and nan_parser                                                   *)

\* RecognitionSentinel::NA.value(): the tag that, followed by count - 2
\* bytes, makes up the field "NA$$" of the doc example.
SentinelNA == <<78, 65>>

\* to_nan::<U>(input, count).  With count < 2 the subtraction count - 2
\* overflows usize: a panic under overflow checks; wrapped, it asks take for
\* more bytes than any slice holds.
to_nan(i, count, U, b) ==
    IF tag(SentinelNA, i).ok
    THEN IF count < 2
         THEN (IF b = "debug" THEN Panic ELSE Err("Eof"))
         ELSE AndThen(take(count - 2, Drop(i, Len(SentinelNA))),
                      LAMBDA k : Ok(k.rest, None))
    ELSE AndThen(uint_parser(count, U, i, b), LAMBDA u : Ok(u.rest, Some(u.val)))

nan_parser(count, U, i, b) == to_nan(i, count, U, b)

----------------------------------------------------------------------------
(* to_angle and angle_parser                                               *)

\* Angle::new(deg, min, sec, negative)
Angle(deg, min, sec, negative) ==
    [deg |-> deg, min |-> min, sec |-> sec, negative |-> negative]

\* A hemisphere reader that takes E for a negative hemisphere.
hemisphere_east_negative(i) ==
    IF tag(<<78>>, i).ok THEN Ok(Drop(i, 1), Some(FALSE))
    ELSE IF tag(<<83>>, i).ok THEN Ok(Drop(i, 1), Some(TRUE))
    ELSE IF tag(<<69>>, i).ok THEN Ok(Drop(i, 1), Some(TRUE))
    ELSE IF tag(<<87>>, i).ok THEN Ok(Drop(i, 1), Some(TRUE))
    ELSE Ok(i, None)

\* opt(alt((tag("N") -> false, tag("S") -> true, tag("E") -> false,
\* tag("W") -> true)))
hemisphere(i) ==
    IF tag(<<78>>, i).ok THEN Ok(Drop(i, 1), Some(FALSE))
    ELSE IF tag(<<83>>, i).ok THEN Ok(Drop(i, 1), Some(TRUE))
    ELSE IF tag(<<69>>, i).ok THEN Ok(Drop(i, 1), Some(FALSE))
    ELSE IF tag(<<87>>, i).ok THEN Ok(Drop(i, 1), Some(TRUE))
    ELSE Ok(i, None)

\* to_angle: the three fields are read as u32; `deg as u16` keeps the low 16
\* bits, `min as u8` the low 8 bits, `sec as f64` is exact.
to_angle(i, num_deg, num_min, num_sec, b) ==
    AndThen(uint_parser_with_default(num_deg, U32(0), "u32", i, b), LAMBDA d :
    AndThen(uint_parser_with_default(num_min, U32(0), "u32", d.rest, b), LAMBDA m :
    AndThen(uint_parser_with_default(num_sec, U32(0), "u32", m.rest, b), LAMBDA s :
    AndThen(hemisphere(s.rest), LAMBDA h :
        Ok(h.rest,
           Angle(d.val.lo, m.val.lo % 256, s.val,
                 IF h.val.some THEN h.val.v ELSE FALSE))))))

angle_parser(num_deg, num_min, num_sec, i, b) ==
    to_angle(i, num_deg, num_min, num_sec, b)

----------------------------------------------------------------------------
(* dted_uhl_parser                                                         *)

\* RecognitionSentinel::UHL.value(): the tag before the longitude origin
\* "1234556E" in the doc example of dted_uhl_parser.
SentinelUHL == <<85, 72, 76, 49>>

\* The unsigned type of the header's interval, accuracy and count fields.
HeaderU == "u32"

\* AxisElement::new(lat, lon)
AxisElement(lat, lon) == [lat |-> lat, lon |-> lon]

\* A header built with the two axes of every pair exchanged.
RawDTEDHeaderSwapped(lon_origin, lat_origin, lon_interval_s, lat_interval_s, accuracy, lon_count, lat_count) ==
    [origin |-> AxisElement(lon_origin, lat_origin),
     interval_secs_x_10 |-> AxisElement(lon_interval_s, lat_interval_s),
     accuracy |-> accuracy,
     count |-> AxisElement(lon_count, lat_count)]

\* The RawDTEDHeader the parser returns from the fields it read.
RawDTEDHeader(lon_origin, lat_origin, lon_interval_s, lat_interval_s, accuracy, lon_count, lat_count) ==
    [origin |-> AxisElement(lat_origin, lon_origin),
     interval_secs_x_10 |-> AxisElement(lat_interval_s, lon_interval_s),
     accuracy |-> accuracy,
     count |-> AxisElement(lat_count, lon_count)]

dted_uhl_parser(i, b) ==
    AndThen(tag(SentinelUHL, i), LAMBDA t :
    AndThen(angle_parser(3, 2, 2, t.rest, b), LAMBDA lon_origin :
    AndThen(angle_parser(3, 2, 2, lon_origin.rest, b), LAMBDA lat_origin :
    AndThen(uint_parser(4, HeaderU, lat_origin.rest, b), LAMBDA lon_interval_s :
    AndThen(uint_parser(4, HeaderU, lon_interval_s.rest, b), LAMBDA lat_interval_s :
    AndThen(nan_parser(4, HeaderU, lat_interval_s.rest, b), LAMBDA accuracy :
    AndThen(take(15, accuracy.rest), LAMBDA r1 :
    AndThen(uint_parser(4, HeaderU, r1.rest, b), LAMBDA lon_count :
    AndThen(uint_parser(4, HeaderU, lon_count.rest, b), LAMBDA lat_count :
    AndThen(take(25, lat_count.rest), LAMBDA r2 :
        Ok(r2.rest,
           RawDTEDHeader(lon_origin.val, lat_origin.val, lon_interval_s.val,
                         lat_interval_s.val, accuracy.val, lon_count.val,
                         lat_count.val))))))))))))

----------------------------------------------------------------------------
(* to_i16 and signed_mag_parser                                            *)

\* The two's-complement reading of the pattern, a plausible wrong decoder.
to_i16_twos(x) == [v |-> AsI16(x), overflow |-> FALSE]

\* to_i16: v, s and (1 - (s << 1)) * v in i16 arithmetic.  `overflow` records
\* whether any intermediate value left the i16 range; the value returned is
\* the wrapped one.
to_i16(x) ==
    LET v   == AsI16(AndDataMsk(x))
        s   == AsI16(AndSignBit(x) \div 32768)
        sh  == s * 2
        one == 1 - AsI16(sh)
        p   == AsI16(one) * v
    IN  [v |-> AsI16(p), overflow |-> ~(InI16(sh) /\ InI16(one) /\ InI16(p))]

\* The closure of map_res in signed_mag_parser: to_i16 of the two bytes.
ToI16Of(bytes, rest, b) ==
    IF to_i16(bytes[1] * 256 + bytes[2]).overflow /\ b = "debug" THEN Panic
    ELSE Ok(rest, to_i16(bytes[1] * 256 + bytes[2]).v)

signed_mag_parser(i, b) ==
    AndThen(take(2, i), LAMBDA t : ToI16Of(t.val, t.rest, b))

\* The big-endian bytes of a 16-bit pattern.
BeBytes(x) == <<x \div 256, x % 256>>

----------------------------------------------------------------------------
(* parse_dted_record and dted_file_parser                                  *)

\* RecognitionSentinel::DATA.value(): the one-byte data-record tag.
SentinelDATA == <<170>>

\* The sizes of the two auxiliary blocks after the header.
DT2_DSI_RECORD_LENGTH == 648

DT2_ACC_RECORD_LENGTH == 2700

\* A u32 `as usize`.
AsUsize(v) == v.hi * 65536 + v.lo

\* count(signed_mag_parser, n)
RECURSIVE count_signed_mag(_, _, _, _)
count_signed_mag(n, i, b, acc) ==
    IF n = 0 THEN Ok(i, acc)
    ELSE AndThen(signed_mag_parser(i, b),
                 LAMBDA r : count_signed_mag(n - 1, r.rest, b, Append(acc, r.val)))

\* A block counter that takes the high byte for a multiple of 0x100.
blk_count_short_shift(block_byte0, block_rest) ==
    block_byte0[1] * 256 + block_rest

\* block_byte0[0] as u32 * 0x10000 + block_rest as u32
blk_count(block_byte0, block_rest) == block_byte0[1] * 65536 + block_rest

parse_dted_record(i, line_len, b) ==
    AndThen(tag(SentinelDATA, i), LAMBDA t :
    AndThen(take(1, t.rest), LAMBDA block_byte0 :
    AndThen(be_u16(block_byte0.rest), LAMBDA block_rest :
    AndThen(be_u16(block_rest.rest), LAMBDA lon_count :
    AndThen(be_u16(lon_count.rest), LAMBDA lat_count :
    AndThen(count_signed_mag(line_len, lat_count.rest, b, <<>>), LAMBDA elevations :
    AndThen(take(4, elevations.rest), LAMBDA checksum :
        Ok(checksum.rest,
           [blk_count |-> blk_count(block_byte0.val, block_rest.val),
            lon_count |-> lon_count.val,
            lat_count |-> lat_count.val,
            elevations |-> elevations.val]))))))))

\* count(|input| parse_dted_record(input, line_len), n)
RECURSIVE count_records(_, _, _, _, _)
count_records(n, line_len, i, b, acc) ==
    IF n = 0 THEN Ok(i, acc)
    ELSE AndThen(parse_dted_record(i, line_len, b),
                 LAMBDA r : count_records(n - 1, line_len, r.rest, b, Append(acc, r.val)))

\* Records read with the two counts of the header exchanged.
records_counts_swapped(header, i, b) ==
    count_records(AsUsize(header.count.lat), AsUsize(header.count.lon), i, b, <<>>)

\* No record read at all when the latitude count is zero.
records_none_for_empty_lines(header, i, b) ==
    IF AsUsize(header.count.lat) = 0 THEN Ok(i, <<>>)
    ELSE count_records(AsUsize(header.count.lon), AsUsize(header.count.lat), i, b, <<>>)

\* The records of a file: header.count.lon records of header.count.lat
\* samples each.
records(header, i, b) ==
    count_records(AsUsize(header.count.lon), AsUsize(header.count.lat), i, b, <<>>)

dted_file_parser(i, b) ==
    AndThen(dted_uhl_parser(i, b), LAMBDA header :
    AndThen(take(DT2_DSI_RECORD_LENGTH, header.rest), LAMBDA dsi :
    AndThen(take(DT2_ACC_RECORD_LENGTH, dsi.rest), LAMBDA acc :
    AndThen(records(header.val, acc.rest, b), LAMBDA data :
        Ok(data.rest,
           [header |-> header.val, data |-> data.val,
            dsi_record |-> None, acc_record |-> None])))))

----------------------------------------------------------------------------
(* Inputs and reference notions shared by the specifications               *)

\* All sequences over S of length at most n.
SeqsUpTo(S, n) == UNION {[1 .. k -> S] : k \in 0 .. n}

SeqsFromTo(S, m, n) == UNION {[1 .. k -> S] : k \in m .. n}

IsDigit(b) == b >= 48 /\ b <= 57

AllDigits(s) == \A k \in 1 .. Len(s) : IsDigit(s[k])

\* The decimal numeral without its leading zeros.
RECURSIVE StripZeros(_)
StripZeros(s) ==
    IF Len(s) > 0 /\ s[1] = 48 THEN StripZeros(Tail(s)) ELSE s

RECURSIVE LexLeq(_, _)
LexLeq(s, t) ==
    \/ s = <<>>
    \/ /\ t # <<>>
       /\ \/ s[1] < t[1]
          \/ s[1] = t[1] /\ LexLeq(Tail(s), Tail(t))

\* Numeral s denotes a number <= numeral t (both digit strings).
NumeralLeq(s, t) ==
    LET a == StripZeros(s)
        c == StripZeros(t)
    IN  Len(a) < Len(c) \/ (Len(a) = Len(c) /\ LexLeq(a, c))

\* The largest value of each unsigned type, as a numeral.
MaxNumeral(U) ==
    CASE U = "u8"  -> <<50, 53, 53>>
      [] U = "u16" -> <<54, 53, 53, 51, 53>>
      [] OTHER     -> <<52, 50, 57, 52, 57, 54, 55, 50, 57, 53>>

\* The numeral of width n that a u32 value denotes, and whether n digits
\* hold all of it: the decimal rendering, by long division of the halves.
DivMod10(v) ==
    LET qh == v.hi \div 10
        t  == (v.hi % 10) * 65536 + v.lo
    IN  [q |-> [hi |-> qh, lo |-> t \div 10], r |-> t % 10]

RECURSIVE Numeral(_, _)
Numeral(v, n) ==
    IF n = 0 THEN <<>>
    ELSE LET d == DivMod10(v) IN Append(Numeral(d.q, n - 1), 48 + d.r)

RECURSIVE DropDigits(_, _)
DropDigits(v, n) == IF n = 0 THEN v ELSE DropDigits(DivMod10(v).q, n - 1)

\* v is exactly the number the digit string s denotes.
Denotes(v, s) == Numeral(v, Len(s)) = s /\ DropDigits(v, Len(s)) = U32(0)

\* The decimal numeral of n in w digits.
RECURSIVE Format(_, _)
Format(n, w) ==
    IF w = 0 THEN <<>> ELSE Append(Format(n \div 10, w - 1), 48 + (n % 10))

Fill(byte, n) == [k \in 1 .. n |-> byte]

----------------------------------------------------------------------------
(* The signed-magnitude decoder on its own                                 *)

InitI16 ==
    /\ build \in Builds
    /\ \E x \in 0 .. 65535 :
          /\ arg = [x |-> x]
          /\ input = BeBytes(x)
    /\ pc = "call"
    /\ result = Err("NotRun")

CallToI16 ==
    /\ pc = "call"
    /\ result' = [direct |-> to_i16(arg.x), parsed |-> signed_mag_parser(input, build)]
    /\ pc' = "done"
    /\ UNCHANGED <<build, input, arg>>

NextI16 == CallToI16

SpecI16 == InitI16 /\ [][NextI16]_vars

\* C1: for every 16-bit pattern x, to_i16(x) and signed_mag_parser on the
\* big-endian bytes of x give m when bit 15 is 0 and -m when it is 1, with
\* m = x & 0x7FFF; the result is never -32768 and no intermediate i16
\* computation overflows (so neither build panics).
C1_SignedMagnitude ==
    pc = "done" =>
        LET x == arg.x
            m == x % 32768
            expect == IF x < 32768 THEN m ELSE -m
        IN  /\ result.direct.v = expect
            /\ ~result.direct.overflow
            /\ result.direct.v # -32768
            /\ result.parsed.ok
            /\ result.parsed.val = expect
            /\ result.parsed.rest = <<>>
            /\ (x = 32771 => result.direct.v = -3)
            /\ (x \in {0, 32768} => result.direct.v = 0)
            /\ (x = 65535 => result.direct.v = -32767)

C1_Witness ==
    /\ pc = "done"
    /\ arg.x = 32771
    /\ result.direct.v = -3
    /\ result.parsed.ok
    /\ result.parsed.val = -3

----------------------------------------------------------------------------
(* The unsigned decimal decoder on its own                                 *)

MaxShortLen == 3

MaxDigits == 10

\* '$' and '/' lie below '0'; ':' , 'A' and 0xFF above '9'.
MixedBytes == {36, 47, 48, 49, 53, 57, 58, 65, 255}

LongDigitBytes == {48, 57}

\* The doc example, and the two numerals around the largest u32.
UintExamples ==
    { <<49, 50, 51>>,
      <<52, 50, 57, 52, 57, 54, 55, 50, 57, 53>>,
      <<52, 50, 57, 52, 57, 54, 55, 50, 57, 54>> }

UintInputs ==
    SeqsUpTo(MixedBytes, MaxShortLen)
        \cup SeqsFromTo(LongDigitBytes, MaxShortLen + 1, MaxDigits)
        \cup UintExamples

InitUint ==
    /\ build \in Builds
    /\ input \in UintInputs
    /\ \E c \in 0 .. Len(input) + 1, U \in UTypes : arg = [count |-> c, U |-> U]
    /\ pc = "call"
    /\ result = Err("NotRun")

CallUintParser ==
    /\ pc = "call"
    /\ result' = uint_parser(arg.count, arg.U, input, build)
    /\ pc' = "done"
    /\ UNCHANGED <<build, input, arg>>

NextUint == CallUintParser

SpecUint == InitUint /\ [][NextUint]_vars

\* The field of a call: the first arg.count bytes of the input.
Field == Prefix(input, arg.count)

HasField == arg.count <= Len(input)

\* C3 (as claimed): whenever any of the count bytes of a numeric field is not
\* an ASCII digit, uint_parser does not succeed: it never returns a numeric
\* value computed from a non-digit byte.
C3_NonDigitFails ==
    (pc = "done" /\ HasField /\ ~AllDigits(Field)) => ~result.ok

\* C4 (as claimed, at the target type u32 of the doc example): for every
\* N >= 1 and every string of N digits, uint_parser(N) returns the exact
\* decimal value and consumes exactly N bytes, leaving the rest of the input
\* unchanged.
C4_ExactForAllDigits ==
    (pc = "done" /\ arg.U = "u32" /\ arg.count >= 1 /\ HasField
        /\ AllDigits(Field)) =>
        /\ result.ok
        /\ Denotes(result.val, Field)
        /\ result.rest = Drop(input, arg.count)

\* C4 (amended): the same, for the digit strings whose value is representable
\* in the target type U (at most 2^32 - 1 for u32).
C4_ExactWhenRepresentable ==
    (pc = "done" /\ arg.count >= 1 /\ HasField /\ AllDigits(Field)
        /\ NumeralLeq(Field, MaxNumeral(arg.U))) =>
        /\ result.ok
        /\ Denotes(result.val, Field)
        /\ result.rest = Drop(input, arg.count)

C4_Witness ==
    /\ pc = "done"
    /\ arg = [count |-> 10, U |-> "u32"]
    /\ input = <<52, 50, 57, 52, 57, 54, 55, 50, 57, 53>>
    /\ result.ok
    /\ result.val = [hi |-> 65535, lo |-> 65535]
    /\ result.rest = <<>>

----------------------------------------------------------------------------
(* The sentinel-aware decoder on its own                                   *)

MaxNanLen == 4

\* 'N', 'A', '$', '1', '9'
NanBytes == {78, 65, 36, 49, 57}

\* The second doc example of to_nan: "12345" with count 4.
NanExamples == { <<49, 50, 51, 52, 53>> }

InitNan ==
    /\ build \in Builds
    /\ input \in SeqsUpTo(NanBytes, MaxNanLen) \cup NanExamples
    /\ \E c \in 0 .. Len(input) + 1, U \in UTypes : arg = [count |-> c, U |-> U]
    /\ pc = "call"
    /\ result = Err("NotRun")

CallNanParser ==
    /\ pc = "call"
    /\ result' = nan_parser(arg.count, arg.U, input, build)
    /\ pc' = "done"
    /\ UNCHANGED <<build, input, arg>>

NextNan == CallNanParser

SpecNan == InitNan /\ [][NextNan]_vars

\* The field begins with the "not available" tag.
FieldIsNA == Len(Field) >= Len(SentinelNA) /\ Prefix(Field, Len(SentinelNA)) = SentinelNA

\* C2 (as claimed, at the target type u32 of the doc example): for every
\* count and every input of at least count bytes, a field that begins with
\* the tag "NA" decodes to None and count bytes are consumed; otherwise a
\* field of digits decodes to Some of its decimal value and count bytes are
\* consumed.
C2_SentinelPrecedence ==
    (pc = "done" /\ arg.U = "u32" /\ HasField) =>
        IF FieldIsNA
        THEN /\ result.ok
             /\ result.val = None
             /\ result.rest = Drop(input, arg.count)
        ELSE AllDigits(Field) =>
             /\ result.ok
             /\ result.val.some
             /\ Denotes(result.val.v, Field)
             /\ result.rest = Drop(input, arg.count)

----------------------------------------------------------------------------
(* The angle decoder on its own                                            *)

MaxWidth == 3

\* '2', '9'
AngleDigitBytes == {50, 57}

\* What follows the digits: nothing, a hemisphere byte, another byte.
AngleTails ==
    { <<>>, <<78>>, <<83>>, <<69>>, <<87>>, <<88>>, <<83, 78>> }

\* The doc examples: "12345", "12345E" and "12345W" with widths (3, 1, 1).
AngleExamples ==
    { <<49, 50, 51, 52, 53>>, <<49, 50, 51, 52, 53, 69>>, <<49, 50, 51, 52, 53, 87>> }

InitAngle ==
    /\ build \in Builds
    /\ \/ \E d \in 0 .. MaxWidth, m \in 0 .. MaxWidth, s \in 0 .. MaxWidth :
             /\ arg = [num_deg |-> d, num_min |-> m, num_sec |-> s]
             /\ \E digits \in [1 .. d + m + s -> AngleDigitBytes], t \in AngleTails :
                   input = digits \o t
       \/ /\ arg = [num_deg |-> 3, num_min |-> 1, num_sec |-> 1]
          /\ input \in AngleExamples
    /\ pc = "call"
    /\ result = Err("NotRun")

CallToAngle ==
    /\ pc = "call"
    /\ result' = angle_parser(arg.num_deg, arg.num_min, arg.num_sec, input, build)
    /\ pc' = "done"
    /\ UNCHANGED <<build, input, arg>>

NextAngle == CallToAngle

SpecAngle == InitAngle /\ [][NextAngle]_vars

DegField == SubSeq(input, 1, arg.num_deg)

MinField == SubSeq(input, arg.num_deg + 1, arg.num_deg + arg.num_min)

SecField ==
    SubSeq(input, arg.num_deg + arg.num_min + 1,
           arg.num_deg + arg.num_min + arg.num_sec)

AngleDigits == arg.num_deg + arg.num_min + arg.num_sec

AngleInputIsDigits ==
    Len(input) >= AngleDigits /\ AllDigits(Prefix(input, AngleDigits))

\* The byte after the digits is one of N, S, E, W.
HasHemisphere ==
    Len(input) > AngleDigits /\ input[AngleDigits + 1] \in {78, 83, 69, 87}

\* What the claim says of a call whose first d + m + s bytes are digits.
AngleAsClaimed ==
    /\ result.ok
    /\ Denotes(U32(result.val.deg), DegField)
    /\ Denotes(U32(result.val.min), MinField)
    /\ Denotes(result.val.sec, SecField)
    /\ IF HasHemisphere
       THEN /\ result.rest = Drop(input, AngleDigits + 1)
            /\ result.val.negative = (input[AngleDigits + 1] \in {83, 87})
       ELSE /\ result.rest = Drop(input, AngleDigits)
            /\ result.val.negative = FALSE

\* C5 (as claimed): for all widths (d, m, s), each possibly 0, and every
\* input whose first d + m + s bytes are digits, degrees, minutes and seconds
\* are the decimal values of the three fields (0 for a zero-width field), one
\* further byte is consumed iff it is N, S, E or W, and the sign flag is true
\* exactly for S and W.
C5_AngleForAllWidths ==
    (pc = "done" /\ AngleInputIsDigits) => AngleAsClaimed

\* C5 (amended): the same, for the inputs whose degrees field denotes at most
\* 65535, whose minutes field denotes at most 255 and whose seconds field
\* denotes at most 2^32 - 1.
C5_AngleWhenRepresentable ==
    (pc = "done" /\ AngleInputIsDigits
        /\ NumeralLeq(DegField, MaxNumeral("u16"))
        /\ NumeralLeq(MinField, MaxNumeral("u8"))
        /\ NumeralLeq(SecField, MaxNumeral("u32"))) => AngleAsClaimed

C5_Witness ==
    /\ pc = "done"
    /\ arg = [num_deg |-> 3, num_min |-> 1, num_sec |-> 1]
    /\ input = <<49, 50, 51, 52, 53, 87>>
    /\ result = Ok(<<>>, Angle(123, 4, U32(5), TRUE))

----------------------------------------------------------------------------
(* The header decoder on its own                                           *)

\* How many bytes may be missing from the end of an input.
MaxCut == 2

\* An origin as written in a header: three numbers and a hemisphere byte
\* (0: no hemisphere byte is written).
LonOrigins ==
    { [deg |-> d[1], min |-> d[2], sec |-> d[3], hemi |-> h] :
        d \in { <<123, 45, 56>>, <<7, 0, 9>> }, h \in {0, 69, 87} }

LatOrigins ==
    { [deg |-> 890, min |-> 12, sec |-> 34, hemi |-> h] : h \in {0, 78, 87} }

\* An accuracy field: a number, the tag and two further bytes, or four bytes
\* that are neither.
Accuracies ==
    { [kind |-> "number", v |-> 9012, bytes |-> Format(9012, 4)],
      [kind |-> "na", v |-> 0, bytes |-> <<78, 65, 36, 36>>],
      [kind |-> "na", v |-> 0, bytes |-> <<78, 65, 49, 50>>],
      [kind |-> "other", v |-> 0, bytes |-> <<65, 66, 49, 50>>] }

\* The reserved blocks of the doc example, and blocks of other bytes.
Reserved15 == { Fill(85, 3) \o Fill(88, 12), Fill(0, 15) }

Reserved25 == { <<48>> \o Fill(88, 24), Fill(78, 25) }

OriginBytes(o) ==
    Format(o.deg, 3) \o Format(o.min, 2) \o Format(o.sec, 2)
        \o (IF o.hemi = 0 THEN <<>> ELSE <<o.hemi>>)

HeaderBytes(h) ==
    h.tag \o OriginBytes(h.lon) \o OriginBytes(h.lat)
        \o Format(h.lon_interval, 4) \o Format(h.lat_interval, 4)
        \o h.acc.bytes \o h.res1
        \o Format(h.lon_count, 4) \o Format(h.lat_count, 4) \o h.res2

Headers ==
    { [tag |-> t, lon |-> lo, lat |-> la, lon_interval |-> li,
       lat_interval |-> 5678, acc |-> a, res1 |-> r1, lon_count |-> lc,
       lat_count |-> 4567, res2 |-> r2] :
        t \in {SentinelUHL, <<85, 72, 76, 50>>}, lo \in LonOrigins,
        la \in LatOrigins, li \in {1234, 10}, a \in Accuracies,
        r1 \in Reserved15, lc \in {1234, 0}, r2 \in Reserved25 }

InitUhl ==
    /\ build \in Builds
    /\ \E h \in Headers, t \in {<<>>, <<170>>}, cut \in 0 .. MaxCut :
          LET bytes == HeaderBytes(h) \o t
          IN  /\ arg = [header |-> h, tail |-> t, cut |-> cut]
              /\ input = Prefix(bytes, Len(bytes) - cut)
    /\ pc = "call"
    /\ result = Err("NotRun")

CallUhlParser ==
    /\ pc = "call"
    /\ result' = dted_uhl_parser(input, build)
    /\ pc' = "done"
    /\ UNCHANGED <<build, input, arg>>

NextUhl == CallUhlParser

SpecUhl == InitUhl /\ [][NextUhl]_vars

\* The full fixed header length: the tag and every field at its full width,
\* both hemisphere characters included (80 bytes).
HeaderLength ==
    Len(SentinelUHL) + (3 + 2 + 2 + 1) + (3 + 2 + 2 + 1) + 4 + 4 + 4 + 15 + 4 + 4 + 25

Consumed == Len(input) - Len(result.rest)

\* The angle an origin of the header denotes.
OriginAngle(o) == Angle(o.deg, o.min, U32(o.sec), o.hemi \in {83, 87})

\* The input holds every field of the claim: the tag, both origins with their
\* hemisphere characters, the intervals, an accuracy field that is the tag or
\* a number, the counts and both reserved blocks.
WellFormedHeader ==
    /\ arg.header.tag = SentinelUHL
    /\ arg.header.lon.hemi # 0
    /\ arg.header.lat.hemi # 0
    /\ arg.header.acc.kind \in {"number", "na"}
    /\ Len(input) >= HeaderLength

\* C6: for every input that holds the tag and every header field, the header
\* decoder succeeds with origin.lon and origin.lat the first and the second
\* angle, interval.lon and interval.lat the first and the second interval,
\* accuracy the sentinel-aware value, count.lon and count.lat the first and
\* the second count, whatever the reserved blocks hold; the remaining bytes
\* are the input after these fields.
C6_HeaderFieldMapping ==
    (pc = "done" /\ WellFormedHeader) =>
        LET h == arg.header IN
        /\ result.ok
        /\ result.val.origin.lon = OriginAngle(h.lon)
        /\ result.val.origin.lat = OriginAngle(h.lat)
        /\ result.val.interval_secs_x_10.lon = U32(h.lon_interval)
        /\ result.val.interval_secs_x_10.lat = U32(h.lat_interval)
        /\ result.val.accuracy =
              (IF h.acc.kind = "na" THEN None ELSE Some(U32(h.acc.v)))
        /\ result.val.count.lon = U32(h.lon_count)
        /\ result.val.count.lat = U32(h.lat_count)
        /\ result.rest = Drop(input, HeaderLength)

\* The doc example of dted_uhl_parser.
C6_Witness ==
    /\ pc = "done"
    /\ input = <<85, 72, 76, 49>> \o Format(1234556, 7) \o <<69>>
                  \o Format(8901234, 7) \o <<87>> \o Format(1234, 4)
                  \o Format(5678, 4) \o Format(9012, 4)
                  \o Fill(85, 3) \o Fill(88, 12) \o Format(1234, 4)
                  \o Format(4567, 4) \o <<48>> \o Fill(88, 24)
    /\ result =
          Ok(<<>>,
             [origin |-> [lat |-> Angle(890, 12, U32(34), TRUE),
                          lon |-> Angle(123, 45, U32(56), FALSE)],
              interval_secs_x_10 |-> [lat |-> U32(5678), lon |-> U32(1234)],
              accuracy |-> Some(U32(9012)),
              count |-> [lat |-> U32(4567), lon |-> U32(1234)]])

\* C8 (as claimed): the header decoder fails on every input shorter than the
\* full fixed header length, and every successful decode consumes exactly
\* that many bytes.
C8_FixedHeaderLength ==
    pc = "done" =>
        /\ (Len(input) < HeaderLength => ~result.ok)
        /\ (result.ok => Consumed = HeaderLength)

----------------------------------------------------------------------------
(* The record decoder on its own                                           *)

MaxLineLen == 2

\* 16-bit sample patterns: 3, -3, -32767 and negative zero.
SamplePatterns == {3, 32771, 65535, 32768}

RECURSIVE SampleBytes(_)
SampleBytes(ws) ==
    IF ws = <<>> THEN <<>> ELSE BeBytes(Head(ws)) \o SampleBytes(Tail(ws))

RecordBytes(r) ==
    r.tag \o <<r.high>> \o BeBytes(r.low) \o BeBytes(r.lon) \o BeBytes(r.lat)
        \o SampleBytes(r.samples) \o r.checksum

Records ==
    { [tag |-> t, high |-> hi, low |-> lo, lon |-> ln, lat |-> 513,
       samples |-> ws, checksum |-> ck] :
        t \in {SentinelDATA, <<171>>}, hi \in {0, 1, 255}, lo \in {3, 65535},
        ln \in {0, 258}, ws \in SeqsUpTo(SamplePatterns, MaxLineLen),
        ck \in {Fill(0, 4), <<1, 2, 3, 4>>} }

InitRecord ==
    /\ build \in Builds
    /\ \E r \in Records, t \in {<<>>, <<170>>}, cut \in 0 .. MaxCut,
          n \in 0 .. MaxLineLen + 1 :
          LET bytes == RecordBytes(r) \o t
          IN  /\ arg = [record |-> r, tail |-> t, cut |-> cut, line_len |-> n]
              /\ input = Prefix(bytes, Len(bytes) - cut)
    /\ pc = "call"
    /\ result = Err("NotRun")

CallParseRecord ==
    /\ pc = "call"
    /\ result' = parse_dted_record(input, arg.line_len, build)
    /\ pc' = "done"
    /\ UNCHANGED <<build, input, arg>>

NextRecord == CallParseRecord

SpecRecord == InitRecord /\ [][NextRecord]_vars

\* The bytes of a record after its tag: 1 + 2 + 2 + 2 + 2 * line_len + 4.
RecordBody(line_len) == 1 + 2 + 2 + 2 + 2 * line_len + 4

\* The value a sign-and-magnitude pattern denotes.
SignedValue(w) == IF w >= 32768 THEN 0 - (w - 32768) ELSE w

\* The 16-bit big-endian word at bytes o, o + 1 of s.
WordAt(s, o) == s[o] * 256 + s[o + 1]

\* C10: for every line_len and every input that starts with the data-record
\* tag followed by at least 1 + 2 + 2 + 2 + 2 * line_len + 4 bytes, decoding
\* succeeds with blk_count = high * 0x10000 + low < 2^24, lon_count and
\* lat_count the next two big-endian words, elevations the line_len
\* sign-and-magnitude samples in input order, and the remaining bytes those
\* after the 4 checksum bytes, whatever these hold; with another tag or fewer
\* bytes the decode fails.
C10_RecordDecode ==
    pc = "done" =>
        LET n == arg.line_len
            T == Len(SentinelDATA)
        IN  IF Len(input) >= T /\ Prefix(input, T) = SentinelDATA
               /\ Len(input) - T >= RecordBody(n)
            THEN /\ result.ok
                 /\ result.val.blk_count = input[T + 1] * 65536 + WordAt(input, T + 2)
                 /\ result.val.blk_count < 16777216
                 /\ result.val.lon_count = WordAt(input, T + 4)
                 /\ result.val.lat_count = WordAt(input, T + 6)
                 /\ result.val.elevations =
                       [k \in 1 .. n |-> SignedValue(WordAt(input, T + 6 + 2 * k))]
                 /\ result.rest = Drop(input, T + RecordBody(n))
            ELSE IsFailure(result)

C10_Witness ==
    /\ pc = "done"
    /\ arg.line_len = 2
    /\ arg.cut = 0
    /\ arg.record.tag = SentinelDATA
    /\ arg.record.high = 255
    /\ arg.record.samples = <<32771, 65535>>
    /\ arg.record.checksum = <<1, 2, 3, 4>>
    /\ result.ok
    /\ result.val.blk_count = 255 * 65536 + arg.record.low
    /\ result.val.elevations = <<-3, -32767>>
    /\ result.rest = arg.tail

----------------------------------------------------------------------------
(* The file decoder                                                        *)

MaxLon == 2

MaxLat == 2

\* The header of a file with the given counts (the other fields are those of
\* the doc example).
FileHeader(lon_count, lat_count) ==
    [tag |-> SentinelUHL,
     lon |-> [deg |-> 123, min |-> 45, sec |-> 56, hemi |-> 69],
     lat |-> [deg |-> 890, min |-> 12, sec |-> 34, hemi |-> 87],
     lon_interval |-> 1234, lat_interval |-> 5678,
     acc |-> [kind |-> "number", v |-> 9012, bytes |-> Format(9012, 4)],
     res1 |-> Fill(85, 3) \o Fill(88, 12),
     lon_count |-> lon_count, lat_count |-> lat_count,
     res2 |-> <<48>> \o Fill(88, 24)]

\* The two sample sequences a file's records draw their samples from.
SampleRows == { <<3, 32771, 65535>>, <<32768, 1, 33023>> }

\* Record k of a file: samples_per_record samples of the row, rotated by k;
\* record bad_tag (if any) carries another tag.
FileRecord(k, f) ==
    [tag |-> IF k = f.bad_tag THEN <<171>> ELSE SentinelDATA,
     high |-> 0, low |-> k - 1, lon |-> k - 1, lat |-> 0,
     samples |-> [j \in 1 .. f.samples_per_record |-> f.row[((j + k) % 3) + 1]],
     checksum |-> <<k, 0, 0, k>>]

RECURSIVE FileRecordBytes(_, _)
FileRecordBytes(k, f) ==
    IF k > f.nrec THEN <<>>
    ELSE RecordBytes(FileRecord(k, f)) \o FileRecordBytes(k + 1, f)

FileBytes(f) ==
    HeaderBytes(FileHeader(f.lon_count, f.lat_count))
        \o Fill(68, DT2_DSI_RECORD_LENGTH) \o Fill(65, DT2_ACC_RECORD_LENGTH)
        \o FileRecordBytes(1, f)

\* A file is whole, or its last byte is missing.
FileCuts == {0, 1}

InitFile ==
    /\ build \in Builds
    /\ \E lc \in 0 .. MaxLon, la \in 0 .. MaxLat, n \in 0 .. MaxLon + 1,
          spr \in 0 .. MaxLat, row \in SampleRows, cut \in FileCuts :
          \E bad \in 0 .. n :
             LET f == [lon_count |-> lc, lat_count |-> la, nrec |-> n,
                       samples_per_record |-> spr, row |-> row,
                       bad_tag |-> bad, cut |-> cut]
                 bytes == FileBytes(f)
             IN  /\ arg = f
                 /\ input = Prefix(bytes, Len(bytes) - cut)
    /\ pc = "call"
    /\ result = Err("NotRun")

CallFileParser ==
    /\ pc = "call"
    /\ result' = dted_file_parser(input, build)
    /\ pc' = "done"
    /\ UNCHANGED <<build, input, arg>>

NextFile == CallFileParser

SpecFile == InitFile /\ [][NextFile]_vars

\* Where the records begin: after the header and the two auxiliary blocks.
DataOffset == HeaderLength + DT2_DSI_RECORD_LENGTH + DT2_ACC_RECORD_LENGTH

\* The length of one record of the file the header announces.
RecordLength == Len(SentinelDATA) + RecordBody(arg.lat_count)

\* Record k of the announced file lies wholly in the input.
RecordPresent(k) == Len(input) >= DataOffset + k * RecordLength

\* Record k of the announced file starts with the data-record tag.
RecordTagged(k) ==
    LET o == DataOffset + (k - 1) * RecordLength
    IN  Len(input) >= o + Len(SentinelDATA)
        /\ SubSeq(input, o + 1, o + Len(SentinelDATA)) = SentinelDATA

\* The input carries the records the header announces, as the generator
\* wrote them.
Aligned == arg.samples_per_record = arg.lat_count /\ arg.nrec >= arg.lon_count

\* The decoded form of record k as the generator wrote it.
ExpectedRecord(k) ==
    LET r == FileRecord(k, arg)
    IN  [blk_count |-> r.high * 65536 + r.low, lon_count |-> r.lon,
         lat_count |-> r.lat,
         elevations |-> [j \in 1 .. Len(r.samples) |-> SignedValue(r.samples[j])]]

\* C7: every successful file decode has exactly header.count.lon records in
\* input order, each with exactly header.count.lat samples, and dsi_record
\* and acc_record empty; with any of the header.count.lon records short, or
\* with another tag, the whole decode fails.
C7_AllOrNothing ==
    pc = "done" =>
        /\ result.ok =>
              /\ result.val.header.count.lon = U32(arg.lon_count)
              /\ result.val.header.count.lat = U32(arg.lat_count)
              /\ Len(result.val.data) = AsUsize(result.val.header.count.lon)
              /\ \A k \in 1 .. Len(result.val.data) :
                    /\ Len(result.val.data[k].elevations)
                          = AsUsize(result.val.header.count.lat)
                    /\ Aligned => result.val.data[k] = ExpectedRecord(k)
              /\ result.val.dsi_record = None
              /\ result.val.acc_record = None
        /\ (\E k \in 1 .. arg.lon_count : ~RecordPresent(k) \/ ~RecordTagged(k))
              => IsFailure(result)

\* Two records of two samples each are decoded ...
C7_Witness ==
    /\ pc = "done"
    /\ arg.lon_count = 2
    /\ arg.lat_count = 2
    /\ Aligned
    /\ result.ok
    /\ Len(result.val.data) = 2
    /\ result.val.data[2].elevations = <<3, -3>>

\* ... and the same file with its last record short is refused.
C7_TruncatedRefused ==
    /\ pc = "done"
    /\ arg.lon_count = 2
    /\ arg.nrec = 2
    /\ Aligned
    /\ arg.bad_tag = 0
    /\ arg.cut = 1
    /\ IsFailure(result)

\* The input of a claim about a zero count: whole, every tag right, and
\* carrying the records the header announces.
ZeroCountInput ==
    /\ arg.lon_count = 0 \/ arg.lat_count = 0
    /\ arg.cut = 0
    /\ arg.bad_tag = 0
    /\ arg.nrec = arg.lon_count
    /\ arg.samples_per_record = arg.lat_count

\* C9 (as claimed): whenever a header count, longitude or latitude, is zero,
\* decoding an otherwise well-formed input does not fail and the record
\* sequence of the file is empty.
C9_ZeroCountEmpty ==
    (pc = "done" /\ ZeroCountInput) => (result.ok /\ result.val.data = <<>>)

\* C9 (amended): with a longitude count of zero, decoding does not fail and
\* the record sequence is empty; with only the latitude count zero, decoding
\* an otherwise well-formed input does not fail and yields count.lon
\* records, each with an empty elevation sequence.
C9_ZeroCounts ==
    (pc = "done" /\ ZeroCountInput) =>
        /\ result.ok
        /\ Len(result.val.data) = arg.lon_count
        /\ \A k \in 1 .. arg.lon_count : result.val.data[k].elevations = <<>>
        /\ result.rest = <<>>

C9_Witness ==
    /\ pc = "done"
    /\ arg.lat_count = 0
    /\ arg.lon_count = 2
    /\ arg.nrec = 2
    /\ arg.samples_per_record = 0
    /\ result.ok
    /\ Len(result.val.data) = 2
    /\ result.val.data[1].elevations = <<>>

====
